---------------------------- MODULE Spec2Model ----------------------------
(***************************************************************************)
(* Model of sentry-mcp-cli: the stdio connector to the Sentry MCP server   *)
(* (sentry_cli/mcp/connector.py), the settings it is built from            *)
(* (sentry_cli/config/settings.py) and the CLI commands on top of it       *)
(* (sentry_cli/main.py).                                                   *)
(*                                                                         *)
(* Four specifications share the variables:                                *)
(*   Spec         a caller driving one SentryMCPConnector (connect,        *)
(*                call_tool, list_tools) and the helpers execute_tool and  *)
(*                list_all_tools, one coroutine at a time, each split at   *)
(*                its await points;                                        *)
(*   SpecCli      one invocation of a CLI command;                         *)
(*   SpecParams   get_settings followed by _build_server_params;           *)
(*   SpecResolve  the name matching of get_tool_by_name.                   *)
(***************************************************************************)
EXTENDS Integers, Sequences, FiniteSets, TLC

VARIABLES
    \* ---- connector.py: the running coroutine and the connector object
    task,         \* the coroutine running or last run ("none" before any)
    pc,           \* its position; "idle" when control is with the caller
    _session,     \* SentryMCPConnector._session (NoSession is None)
    session,      \* the `session` local of the running coroutine
    proc,         \* ids of child processes that are running
    streams,      \* ids whose stdio streams are open
    scopes,       \* ids whose ClientSession scope is entered
    initialized,  \* ids whose initialize() handshake completed
    spawnedBy,    \* spawnedBy[id]: the run that spawned child process id
    requests,     \* the requests forwarded to a session, in order
    pending,      \* the return value or exception unwinding the scopes
    spawns,       \* spawn attempts of the run in progress
    log,          \* log[r]: what run r handed back to its caller
    \* ---- settings.py and _build_server_params
    environ,      \* the merged environment / .env values
    settings,     \* the Settings instance
    params,       \* the StdioServerParameters built from it
    ppc,          \* position of the SpecParams run
    \* ---- main.py
    cmd,          \* the CLI command invoked ("none" outside SpecCli)
    cpc,          \* its position
    exitCode,     \* the exit status of the command (Running until it ends)
    catalog,      \* the tools the server lists
    tool_name,    \* the name asked for
    tool          \* what get_tool_by_name returned

lifeVars  == <<task, pc, _session, session, proc, streams, scopes,
               initialized, spawnedBy, requests, pending, spawns, log>>
confVars  == <<environ, settings, params, ppc>>
cliVars   == <<cmd, cpc, exitCode>>
toolVars  == <<catalog, tool_name, tool>>
vars      == <<lifeVars, confVars, cliVars, toolVars>>

-----------------------------------------------------------------------------
(* Bounds of the model *)

\* number of coroutines the caller of Spec starts
MaxRuns == 3
\* longest tool name, in characters
MaxNameLen == 2
\* most tools in a catalog
MaxCatalog == 2

-----------------------------------------------------------------------------
(* Values *)

\* Python's None, for the optional strings
None == "<None>"
\* self._session = None
NoSession == 0

Last(s) == s[Len(s)]

-----------------------------------------------------------------------------
(* connector.py: the coroutines, split at their await points               *)

Helpers     == {"execute_tool", "list_all_tools"}
Methods     == {"call_tool", "list_tools"}

\* the id the next spawned child process gets
NewId == Len(spawnedBy) + 1

\* the session a request of the running coroutine is sent on: the local of
\* the helpers (lines 156, 181), self._session of the methods (100, 116)
Target == IF task \in Methods THEN _session ELSE session

\* control goes back to the caller with outcome o and return value v,
\* after n spawn attempts
Handed(o, v, n) ==
    log' = Append(log, [task |-> task, outcome |-> o, retval |-> v,
                        spawns |-> n])

\* a coroutine with a stdio_client scope starts: it builds the launch
\* parameters and reaches the first async with
Enter(t) ==
    /\ pc = "idle"
    /\ Len(log) < MaxRuns
    /\ task' = t
    /\ pc' = "stdio_client"
    /\ spawns' = 0
    /\ UNCHANGED <<_session, session, proc, streams, scopes, initialized,
                   spawnedBy, requests, pending, log>>

\* the caller awaits connector.connect()
Connect ==
    /\ cmd = "none"
    /\ Enter("connect")
    /\ UNCHANGED <<confVars, cliVars, toolVars>>

\* the caller awaits execute_tool(settings, tool_name, arguments)
ExecuteTool ==
    /\ cmd = "none"
    /\ Enter("execute_tool")
    /\ UNCHANGED <<confVars, cliVars, toolVars>>

\* the caller awaits list_all_tools(settings)
ListAllTools ==
    /\ cmd = "none"
    /\ Enter("list_all_tools")
    /\ UNCHANGED <<confVars, cliVars, toolVars>>

\* stdio_client(...).__aenter__ starts the child process and opens its pipes
SpawnOk ==
    /\ pc = "stdio_client"
    /\ spawns' = spawns + 1
    /\ spawnedBy' = Append(spawnedBy, Len(log) + 1)
    /\ proc' = proc \cup {NewId}
    /\ streams' = streams \cup {NewId}
    /\ session' = NewId
    /\ pc' = "ClientSession"
    /\ UNCHANGED <<task, _session, scopes, initialized, requests, pending, log>>
    /\ UNCHANGED <<confVars, cliVars, toolVars>>

\* the child process cannot be started: the exception leaves the coroutine,
\* no scope was entered
SpawnFail ==
    /\ pc = "stdio_client"
    /\ spawns' = spawns + 1
    /\ Handed("ConnectionError", NoSession, spawns + 1)
    /\ pc' = "idle"
    /\ UNCHANGED <<task, _session, session, proc, streams, scopes, initialized,
                   spawnedBy, requests, pending>>
    /\ UNCHANGED <<confVars, cliVars, toolVars>>

\* the task is cancelled while the child process is being started
SpawnCancel ==
    /\ pc = "stdio_client"
    /\ spawns' = spawns + 1
    /\ Handed("Cancelled", NoSession, spawns + 1)
    /\ pc' = "idle"
    /\ UNCHANGED <<task, _session, session, proc, streams, scopes, initialized,
                   spawnedBy, requests, pending>>
    /\ UNCHANGED <<confVars, cliVars, toolVars>>

\* ClientSession(read, write).__aenter__
EnterSession ==
    /\ pc = "ClientSession"
    /\ scopes' = scopes \cup {session}
    /\ pc' = "initialize"
    /\ UNCHANGED <<task, _session, session, proc, streams, initialized,
                   spawnedBy, requests, pending, spawns, log>>
    /\ UNCHANGED <<confVars, cliVars, toolVars>>

\* await session.initialize() returns: connect goes on to store the session,
\* a helper to its request
InitializeOk ==
    /\ pc = "initialize"
    /\ initialized' = initialized \cup {session}
    /\ pc' = IF task = "connect" THEN "store" ELSE "request"
    /\ UNCHANGED <<task, _session, session, proc, streams, scopes,
                   spawnedBy, requests, pending, spawns, log>>
    /\ UNCHANGED <<confVars, cliVars, toolVars>>

\* InitializeFail with `self._session = session` placed before the handshake
InitializeFail_StoresSession ==
    /\ pc = "initialize"
    /\ _session' = session
    /\ pending' = "ConnectionError"
    /\ pc' = "exit_session"
    /\ UNCHANGED <<task, session, proc, streams, scopes, initialized,
                   spawnedBy, requests, spawns, log>>
    /\ UNCHANGED <<confVars, cliVars, toolVars>>

\* await session.initialize() raises: the exception unwinds both scopes
InitializeFail ==
    /\ pc = "initialize"
    /\ pending' = "ConnectionError"
    /\ pc' = "exit_session"
    /\ UNCHANGED <<task, _session, session, proc, streams, scopes, initialized,
                   spawnedBy, requests, spawns, log>>
    /\ UNCHANGED <<confVars, cliVars, toolVars>>

\* the task is cancelled during the handshake
InitializeCancel ==
    /\ pc = "initialize"
    /\ pending' = "Cancelled"
    /\ pc' = "exit_session"
    /\ UNCHANGED <<task, _session, session, proc, streams, scopes, initialized,
                   spawnedBy, requests, spawns, log>>
    /\ UNCHANGED <<confVars, cliVars, toolVars>>

\* connect: self._session = session; return session (inside both scopes)
StoreSession ==
    /\ pc = "store"
    /\ _session' = session
    /\ pending' = "Session"
    /\ pc' = "exit_session"
    /\ UNCHANGED <<task, session, proc, streams, scopes, initialized,
                   spawnedBy, requests, spawns, log>>
    /\ UNCHANGED <<confVars, cliVars, toolVars>>

\* a request of the run in progress forwarded to session sid, with the
\* state that session is in when it gets the request
Request(sid, kind) ==
    [sid |-> sid, kind |-> kind, run |-> Len(log) + 1,
     initialized |-> sid \in initialized,
     open |-> sid \in scopes /\ sid \in streams /\ sid \in proc]

\* a helper sends its one request: session.call_tool or session.list_tools
SendRequest ==
    /\ pc = "request"
    /\ requests' = Append(requests,
           Request(session,
               IF task = "execute_tool" THEN "call_tool" ELSE "list_tools"))
    /\ pc' = "await_reply"
    /\ UNCHANGED <<task, _session, session, proc, streams, scopes, initialized,
                   spawnedBy, pending, spawns, log>>
    /\ UNCHANGED <<confVars, cliVars, toolVars>>

\* where a coroutine goes once its request is settled: the helpers leave
\* their scopes, the methods of the connector have none
AfterReply == IF task \in Methods THEN "return" ELSE "exit_session"

\* the child process answers the request
ReplyResult ==
    /\ pc = "await_reply"
    /\ Target \in proc /\ Target \in streams
    /\ pending' = "Result"
    /\ pc' = AfterReply
    /\ UNCHANGED <<task, _session, session, proc, streams, scopes, initialized,
                   spawnedBy, requests, spawns, log>>
    /\ UNCHANGED <<confVars, cliVars, toolVars>>

\* ReplyError with the request sent again on the same session
ReplyError_Retries ==
    /\ pc = "await_reply"
    /\ Target \in proc /\ Target \in streams
    /\ pc' = IF task \in Methods THEN "return" ELSE "request"
    /\ pending' = IF task \in Methods THEN "ToolError" ELSE pending
    /\ UNCHANGED <<task, _session, session, proc, streams, scopes, initialized,
                   spawnedBy, requests, spawns, log>>
    /\ UNCHANGED <<confVars, cliVars, toolVars>>

\* the request fails: the server answers with an error
ReplyError ==
    /\ pc = "await_reply"
    /\ Target \in proc /\ Target \in streams
    /\ pending' = "ToolError"
    /\ pc' = AfterReply
    /\ UNCHANGED <<task, _session, session, proc, streams, scopes, initialized,
                   spawnedBy, requests, spawns, log>>
    /\ UNCHANGED <<confVars, cliVars, toolVars>>

\* the streams of the session are closed: the client library raises
\* (when it does not, the coroutine waits until it is cancelled)
ReplyClosed ==
    /\ pc = "await_reply"
    /\ Target \notin streams
    /\ pending' = "ClosedResourceError"
    /\ pc' = AfterReply
    /\ UNCHANGED <<task, _session, session, proc, streams, scopes, initialized,
                   spawnedBy, requests, spawns, log>>
    /\ UNCHANGED <<confVars, cliVars, toolVars>>

\* ReplyCancel with the cancellation leaving the coroutine past its scopes
ReplyCancel_NoUnwind ==
    /\ pc = "await_reply"
    /\ pending' = "Cancelled"
    /\ pc' = "return"
    /\ UNCHANGED <<task, _session, session, proc, streams, scopes, initialized,
                   spawnedBy, requests, spawns, log>>
    /\ UNCHANGED <<confVars, cliVars, toolVars>>

\* the task is cancelled while the request is in flight
ReplyCancel ==
    /\ pc = "await_reply"
    /\ pending' = "Cancelled"
    /\ pc' = AfterReply
    /\ UNCHANGED <<task, _session, session, proc, streams, scopes, initialized,
                   spawnedBy, requests, spawns, log>>
    /\ UNCHANGED <<confVars, cliVars, toolVars>>

\* ClientSession.__aexit__: runs on return, exception and cancellation
ExitSession ==
    /\ pc = "exit_session"
    /\ scopes' = scopes \ {session}
    /\ pc' = "exit_stdio"
    /\ UNCHANGED <<task, _session, session, proc, streams, initialized,
                   spawnedBy, requests, pending, spawns, log>>
    /\ UNCHANGED <<confVars, cliVars, toolVars>>

\* stdio_client.__aexit__: terminates the child process, closes its streams
ExitStdio ==
    /\ pc = "exit_stdio"
    /\ proc' = proc \ {session}
    /\ streams' = streams \ {session}
    /\ pc' = "return"
    /\ UNCHANGED <<task, _session, session, scopes, initialized,
                   spawnedBy, requests, pending, spawns, log>>
    /\ UNCHANGED <<confVars, cliVars, toolVars>>

\* the coroutine ends: its value or exception reaches the caller
Return ==
    /\ pc = "return"
    /\ Handed(pending, IF pending = "Session" THEN session ELSE NoSession,
              spawns)
    /\ pending' = "none"
    /\ session' = NoSession
    /\ pc' = "idle"
    /\ UNCHANGED <<task, _session, proc, streams, scopes, initialized,
                   spawnedBy, requests, spawns>>
    /\ UNCHANGED <<confVars, cliVars, toolVars>>

\* Method without the `if not self._session` guard
Method_Unguarded(t) ==
    /\ cmd = "none"
    /\ pc = "idle"
    /\ Len(log) < MaxRuns
    /\ task' = t
    /\ spawns' = 0
    /\ requests' = Append(requests, Request(_session, t))
    /\ pc' = "await_reply"
    /\ UNCHANGED <<_session, session, proc, streams, scopes, initialized,
                   spawnedBy, pending, log>>
    /\ UNCHANGED <<confVars, cliVars, toolVars>>

\* connector.call_tool / connector.list_tools up to the first await:
\* `if not self._session: raise RuntimeError(...)`, else the request is
\* forwarded to self._session
Method(t) ==
    /\ cmd = "none"
    /\ pc = "idle"
    /\ Len(log) < MaxRuns
    /\ task' = t
    /\ spawns' = 0
    /\ IF _session = NoSession
       THEN /\ log' = Append(log, [task |-> t, outcome |-> "NotInitialized",
                                   retval |-> NoSession, spawns |-> 0])
            /\ UNCHANGED <<pc, requests>>
       ELSE /\ requests' = Append(requests, Request(_session, t))
            /\ pc' = "await_reply"
            /\ UNCHANGED log
    /\ UNCHANGED <<_session, session, proc, streams, scopes, initialized,
                   spawnedBy, pending>>
    /\ UNCHANGED <<confVars, cliVars, toolVars>>

CallTool == Method("call_tool")

ListTools == Method("list_tools")

LifeInit ==
    /\ task = "none"
    /\ pc = "idle"
    /\ _session = NoSession
    /\ session = NoSession
    /\ proc = {}
    /\ streams = {}
    /\ scopes = {}
    /\ initialized = {}
    /\ spawnedBy = <<>>
    /\ requests = <<>>
    /\ pending = "none"
    /\ spawns = 0
    /\ log = <<>>

\* the steps of a coroutine with a stdio_client scope
ScopedStep ==
    \/ SpawnOk \/ SpawnFail \/ SpawnCancel
    \/ EnterSession
    \/ InitializeOk \/ InitializeFail \/ InitializeCancel
    \/ SendRequest
    \/ ReplyResult \/ ReplyError \/ ReplyCancel
    \/ ExitSession \/ ExitStdio \/ Return

-----------------------------------------------------------------------------
(* settings.py: Settings and get_settings                                  *)

\* sentry_host: str = Field(default="sentry.io")
DefaultHost == "sentry.io"

\* the settings variable before get_settings has returned
NoSettings ==
    [sentry_access_token |-> None, sentry_host |-> None,
     openai_api_key |-> None]

\* Settings(): each field from the environment, else its default
Settings(e) ==
    [sentry_access_token |-> e.SENTRY_ACCESS_TOKEN,
     sentry_host |-> IF e.SENTRY_HOST = None THEN DefaultHost
                     ELSE e.SENTRY_HOST,
     openai_api_key |-> e.OPENAI_API_KEY]

\* get_settings with sentry_access_token given a default of None
get_settings_TokenOptional(e) == [ok |-> TRUE, value |-> Settings(e)]

\* get_settings(): Settings() raises ValidationError when the required
\* sentry_access_token has no value
get_settings(e) ==
    IF e.SENTRY_ACCESS_TOKEN = None
    THEN [ok |-> FALSE, value |-> NoSettings]
    ELSE [ok |-> TRUE, value |-> Settings(e)]

-----------------------------------------------------------------------------
(* connector.py: _build_server_params                                      *)

\* the params variable before _build_server_params has returned
NoParams == [command |-> None, args |-> <<>>, env |-> [SENTRY_HOST |-> None]]

\* Python truth of an Optional[str]: neither None nor ""
Truthy(v) == v # None /\ v # ""

\* _build_server_params without the `!= "sentry.io"` test
_build_server_params_AlwaysHost(s) ==
    [command |-> "npx",
     args |-> <<"@sentry/mcp-server@latest", "--access-token",
                s.sentry_access_token, "--host", s.sentry_host>>,
     env |-> IF Truthy(s.openai_api_key)
             THEN [SENTRY_HOST |-> s.sentry_host]
                  @@ [OPENAI_API_KEY |-> s.openai_api_key]
             ELSE [SENTRY_HOST |-> s.sentry_host]]

\* _build_server_params without the `if self.settings.openai_api_key` test
_build_server_params_AlwaysKey(s) ==
    [command |-> "npx",
     args |-> IF s.sentry_host # "sentry.io"
              THEN <<"@sentry/mcp-server@latest", "--access-token",
                     s.sentry_access_token, "--host", s.sentry_host>>
              ELSE <<"@sentry/mcp-server@latest", "--access-token",
                     s.sentry_access_token>>,
     env |-> [SENTRY_HOST |-> s.sentry_host]
             @@ [OPENAI_API_KEY |-> s.openai_api_key]]

_build_server_params(s) ==
    LET base == <<"@sentry/mcp-server@latest", "--access-token",
                  s.sentry_access_token>>
        args == IF s.sentry_host # "sentry.io"
                THEN base \o <<"--host", s.sentry_host>>
                ELSE base
        host_env == [SENTRY_HOST |-> s.sentry_host]
        env  == IF Truthy(s.openai_api_key)
                THEN host_env @@ [OPENAI_API_KEY |-> s.openai_api_key]
                ELSE host_env
    IN  [command |-> "npx", args |-> args, env |-> env]

\* the environments SpecParams starts from
Tokens == {None, "", "tok123", "--host"}
Hosts  == {None, "", "sentry.io", "SENTRY.IO", "sentry.example.com"}
Keys   == {None, "", "sk-abc"}
Environs ==
    [SENTRY_ACCESS_TOKEN : Tokens, SENTRY_HOST : Hosts, OPENAI_API_KEY : Keys]

\* settings = get_settings()
LoadSettings ==
    /\ ppc = "get_settings"
    /\ LET r == get_settings(environ)
       IN  /\ settings' = r.value
           /\ ppc' = IF r.ok THEN "build" ELSE "ValidationError"
    /\ UNCHANGED <<environ, params>>
    /\ UNCHANGED <<lifeVars, cliVars, toolVars>>

\* SentryMCPConnector(settings)._build_server_params()
BuildServerParams ==
    /\ ppc = "build"
    /\ params' = _build_server_params(settings)
    /\ ppc' = "built"
    /\ UNCHANGED <<environ, settings>>
    /\ UNCHANGED <<lifeVars, cliVars, toolVars>>

-----------------------------------------------------------------------------
(* main.py: get_tool_by_name                                               *)

\* a name is the sequence of its characters
Alphabet == {"a", "-", "_"}
SeqsUpTo(S, n) == UNION {[1..k -> S] : k \in 0..n}
Names    == SeqsUpTo(Alphabet, MaxNameLen)
Catalogs == SeqsUpTo(Names, MaxCatalog)

\* str.replace(old, new) for one-character old and new
replace(s, old, new) ==
    [i \in 1..Len(s) |-> IF s[i] = old THEN new ELSE s[i]]

\* return None
NotFound == 0

\* a for loop returns at the first index it accepts
FirstIndex(S) ==
    IF S = {} THEN NotFound ELSE CHOOSE i \in S : \A j \in S : i <= j

\* a loop that keeps the last index it accepts
LastIndex(S) ==
    IF S = {} THEN NotFound ELSE CHOOSE i \in S : \A j \in S : i >= j

\* get_tool_by_name normalizing only the catalog's names
get_tool_by_name_OneWay(tools, name) ==
    LET exact == {i \in 1..Len(tools) : tools[i] = name}
        fuzzy == {i \in 1..Len(tools) : replace(tools[i], "-", "_") = name}
    IN  IF exact # {} THEN FirstIndex(exact) ELSE FirstIndex(fuzzy)

\* get_tool_by_name whose second loop does not return at its first match
get_tool_by_name_LastMatch(tools, name) ==
    LET exact == {i \in 1..Len(tools) : tools[i] = name}
        normalized_name == replace(name, "-", "_")
        fuzzy == {i \in 1..Len(tools) :
                     replace(tools[i], "-", "_") = normalized_name}
    IN  IF exact # {} THEN FirstIndex(exact) ELSE LastIndex(fuzzy)

\* get_tool_by_name on the listed tools: the index of the tool returned
get_tool_by_name(tools, name) ==
    LET exact == {i \in 1..Len(tools) : tools[i] = name}
        normalized_name == replace(name, "-", "_")
        fuzzy == {i \in 1..Len(tools) :
                     replace(tools[i], "-", "_") = normalized_name}
    IN  IF exact # {} THEN FirstIndex(exact) ELSE FirstIndex(fuzzy)

\* the matching of get_tool_by_name applied to a listed catalog
Resolve ==
    /\ cmd = "none"
    /\ cpc = "resolve"
    /\ tool' = get_tool_by_name(catalog, tool_name)
    /\ cpc' = "resolved"
    /\ UNCHANGED <<cmd, exitCode, catalog, tool_name>>
    /\ UNCHANGED <<lifeVars, confVars>>

-----------------------------------------------------------------------------
(* main.py: the commands list-tools, describe-tool and tool-schema         *)

Commands == {"list-tools", "describe-tool", "tool-schema"}

\* the environments, catalogs and names SpecCli starts from
CliEnvirons ==
    [SENTRY_ACCESS_TOKEN : {None, "tok123"}, SENTRY_HOST : {None},
     OPENAI_API_KEY : {None}]
CliCatalogs ==
    { <<>>, << <<"a", "_">> >>, << <<"a", "_">>, <<"a", "-">> >> }
CliNames == { <<"a", "-">>, <<"a", "_">>, <<"a", "a">> }

\* settings = get_settings(), inside the try block of the command
CliGetSettings ==
    /\ cmd \in Commands
    /\ cpc = "get_settings"
    /\ LET r == get_settings(environ)
       IN  IF r.ok
           THEN /\ settings' = r.value
                /\ cpc' = "run"
                /\ UNCHANGED exitCode
           ELSE \* except Exception: sys.exit(1)
                /\ exitCode' = "1"
                /\ cpc' = "exited"
                /\ UNCHANGED settings
    /\ UNCHANGED <<cmd, environ, params, ppc>>
    /\ UNCHANGED <<lifeVars, toolVars>>

\* asyncio.run(list_all_tools(settings)), directly (line 112) or as the
\* first statement of get_tool_by_name (line 18)
CliRun ==
    /\ cmd \in Commands
    /\ cpc = "run"
    /\ Enter("list_all_tools")
    /\ cpc' = "await"
    /\ UNCHANGED <<cmd, exitCode>>
    /\ UNCHANGED <<confVars, toolVars>>

\* the rest of the command once list_all_tools has handed back control
CliFinish ==
    /\ cmd \in Commands
    /\ cpc = "await"
    /\ pc = "idle"
    /\ log # <<>>
    /\ cpc' = "exited"
    /\ LET o == Last(log).outcome
           found == get_tool_by_name(catalog, tool_name)
       IN  CASE o = "Result" /\ cmd = "list-tools" ->
                  exitCode' = "0" /\ UNCHANGED tool
             [] o = "Result" /\ cmd # "list-tools" ->
                  /\ tool' = found
                  /\ exitCode' = IF found = NotFound THEN "1" ELSE "0"
             [] o = "Cancelled" ->
                  \* not an Exception: it leaves the command uncaught
                  exitCode' = "interrupted" /\ UNCHANGED tool
             [] OTHER ->
                  \* except Exception: sys.exit(1)
                  exitCode' = "1" /\ UNCHANGED tool
    /\ UNCHANGED <<cmd, catalog, tool_name>>
    /\ UNCHANGED <<lifeVars, confVars>>

-----------------------------------------------------------------------------
(* The specifications *)

ConfIdle ==
    /\ environ = [SENTRY_ACCESS_TOKEN |-> "tok123", SENTRY_HOST |-> None,
                  OPENAI_API_KEY |-> None]
    /\ settings = NoSettings
    /\ params = NoParams
    /\ ppc = "none"

CliIdle ==
    /\ cmd = "none"
    /\ cpc = "none"
    /\ exitCode = "running"

ToolIdle ==
    /\ catalog = <<>>
    /\ tool_name = <<>>
    /\ tool = NotFound

\* a caller of the connector module
Init == LifeInit /\ ConfIdle /\ CliIdle /\ ToolIdle

Next ==
    \/ Connect \/ CallTool \/ ListTools \/ ExecuteTool \/ ListAllTools
    \/ ScopedStep \/ StoreSession \/ ReplyClosed

Spec == Init /\ [][Next]_vars

\* one invocation of a command
InitCli ==
    /\ LifeInit
    /\ environ \in CliEnvirons
    /\ settings = NoSettings
    /\ params = NoParams
    /\ ppc = "none"
    /\ cmd \in Commands
    /\ cpc = "get_settings"
    /\ exitCode = "running"
    /\ catalog \in CliCatalogs
    /\ tool_name \in CliNames
    /\ tool = NotFound

NextCli == CliGetSettings \/ CliRun \/ ScopedStep \/ CliFinish

SpecCli == InitCli /\ [][NextCli]_vars

\* settings loaded from an environment, launch parameters built from them
InitParams ==
    /\ LifeInit /\ CliIdle /\ ToolIdle
    /\ environ \in Environs
    /\ settings = NoSettings
    /\ params = NoParams
    /\ ppc = "get_settings"

NextParams == LoadSettings \/ BuildServerParams

SpecParams == InitParams /\ [][NextParams]_vars

\* a name resolved in a catalog
InitResolve ==
    /\ LifeInit /\ ConfIdle
    /\ cmd = "none"
    /\ cpc = "resolve"
    /\ exitCode = "running"
    /\ catalog \in Catalogs
    /\ tool_name \in Names
    /\ tool = NotFound

NextResolve == Resolve

SpecResolve == InitResolve /\ [][NextResolve]_vars

-----------------------------------------------------------------------------
(* Properties *)

\* the coroutine of run r, complete or in progress
TaskOf(r) ==
    IF r <= Len(log) THEN log[r].task
    ELSE IF pc # "idle" THEN task ELSE "none"

\* the requests forwarded during run r
RequestsOf(r) == {i \in 1..Len(requests) : requests[i].run = r}

\* the child processes spawned during run r
SpawnedIn(r) == {sid \in 1..Len(spawnedBy) : spawnedBy[sid] = r}

\* run r is a connect() that handed back a session
ConnectedAt(r) == log[r].task = "connect" /\ log[r].outcome = "Session"

\* C1: once connect() has returned, the session it stored is released, and
\* every later call_tool or list_tools of the connector fails with the
\* "not initialized" error: no request is ever forwarded to a session that
\* is not open, and the call hands back nothing else.
C1_ReleasedSessionRejected ==
    /\ \A i \in 1..Len(requests) :
          TaskOf(requests[i].run) \in Methods => requests[i].open
    /\ \A r \in 1..Len(log) :
          (log[r].task \in Methods /\ \E q \in 1..(r - 1) : ConnectedAt(q))
              => log[r].outcome = "NotInitialized"

\* C2: while no connect() of the connector has completed successfully
\* (none called, or each failed at spawn or handshake, or was cancelled),
\* every call_tool and list_tools raises "MCP session not initialized"
\* at once: it forwards no request and hands back no value.
C2_NeverConnectedRaises ==
    \A r \in 1..(Len(log) + 1) :
        (TaskOf(r) \in Methods /\ ~ \E q \in 1..Len(log) : q < r /\ ConnectedAt(q))
            => /\ r <= Len(log)
               /\ RequestsOf(r) = {}
               /\ log[r].outcome = "NotInitialized"
               /\ log[r].retval = NoSession
               /\ log[r].spawns = 0

\* a connect() failed at the handshake, and a later call_tool or list_tools
\* raised "not initialized"
C2_Witness ==
    \E r \in 1..Len(log) : \E q \in 1..(r - 1) :
        /\ log[q].task = "connect"
        /\ log[q].outcome = "ConnectionError"
        /\ SpawnedIn(q) # {}
        /\ log[r].task \in Methods
        /\ log[r].outcome = "NotInitialized"

\* C3: when execute_tool or list_all_tools hands control back (a result, an
\* error of the spawn, the handshake or the request, or a cancellation),
\* the child process it spawned is terminated, its streams are closed and
\* its session scope is left.
C3_HelpersReleaseOnEveryExit ==
    /\ \A sid \in 1..Len(spawnedBy) :
          (spawnedBy[sid] <= Len(log) /\ log[spawnedBy[sid]].task \in Helpers)
              => sid \notin (proc \cup streams \cup scopes)
    /\ (pc = "idle" /\ task \in Helpers)
          => (proc = {} /\ streams = {} /\ scopes = {})

\* a helper was cancelled while its request was in flight, and has handed
\* control back
C3_Witness ==
    \E r \in 1..Len(log) :
        /\ log[r].task \in Helpers
        /\ log[r].outcome = "Cancelled"
        /\ RequestsOf(r) # {}
        /\ SpawnedIn(r) # {}

\* C4: connect() never yields a half-initialized session.  The session on
\* the connector and the session connect() returns have completed the
\* handshake; a connect() that fails (spawn or handshake) or is cancelled
\* raises, returns no session, stores none on the connector, leaves no
\* child process or stream behind, and has made exactly one spawn attempt.
C4_NoHalfInitializedSession ==
    /\ _session # NoSession
          => /\ _session \in initialized
             /\ TaskOf(spawnedBy[_session]) = "connect"
             /\ IF spawnedBy[_session] <= Len(log)
                THEN log[spawnedBy[_session]].outcome = "Session"
                ELSE pending = "Session"
    /\ \A r \in 1..Len(log) :
          log[r].task = "connect"
              => /\ log[r].spawns = 1
                 /\ Cardinality(SpawnedIn(r)) <= 1
                 /\ SpawnedIn(r) \cap (proc \cup streams \cup scopes) = {}
                 /\ IF log[r].outcome = "Session"
                    THEN /\ log[r].retval \in initialized
                         /\ log[r].retval \in SpawnedIn(r)
                    ELSE /\ log[r].outcome \in {"ConnectionError", "Cancelled"}
                         /\ log[r].retval = NoSession
                         /\ _session \notin SpawnedIn(r)

\* a connect() whose handshake failed has raised
C4_Witness ==
    \E r \in 1..Len(log) :
        /\ log[r].task = "connect"
        /\ log[r].outcome = "ConnectionError"
        /\ SpawnedIn(r) # {}

\* the request a helper sends
KindOf(t) == IF t = "execute_tool" THEN "call_tool" ELSE "list_tools"

\* C9: each run of execute_tool or list_all_tools makes one spawn attempt
\* and has at most one child process; it forwards at most one request, of
\* its own kind, to the session of the child process it spawned itself,
\* after that session's handshake and while it is open; a run that returns
\* a result or a request error has sent exactly one request, and a run
\* whose spawn or handshake failed has sent none.
C9_OneCyclePerRun ==
    \A r \in 1..(Len(log) + 1) :
        TaskOf(r) \in Helpers
            => /\ Cardinality(SpawnedIn(r)) <= 1
               /\ Cardinality(RequestsOf(r)) <= 1
               /\ \A i \in RequestsOf(r) :
                     /\ requests[i].sid \in SpawnedIn(r)
                     /\ requests[i].initialized
                     /\ requests[i].open
                     /\ requests[i].kind = KindOf(TaskOf(r))
               /\ r <= Len(log)
                    => /\ log[r].spawns = 1
                       /\ log[r].outcome \in {"Result", "ToolError"}
                             => Cardinality(RequestsOf(r)) = 1
                       /\ log[r].outcome = "ConnectionError"
                             => RequestsOf(r) = {}

\* two helper runs have each returned a result, each from its own session
C9_Witness ==
    \E r \in 1..Len(log) : \E q \in 1..(r - 1) :
        /\ log[q].task \in Helpers /\ log[q].outcome = "Result"
        /\ log[r].task \in Helpers /\ log[r].outcome = "Result"
        /\ RequestsOf(q) # {} /\ RequestsOf(r) # {}

\* the host the configuration gives: SENTRY_HOST, else the default
ConfiguredHost ==
    IF environ.SENTRY_HOST = None THEN "sentry.io" ELSE environ.SENTRY_HOST

\* flag directly followed by value in the argument list
HasOption(args, flag, value) ==
    \E i \in 1..(Len(args) - 1) : args[i] = flag /\ args[i + 1] = value

\* C5: the argument list built by _build_server_params holds
\* "--access-token" followed by the configured token, and holds "--host"
\* followed by the configured host exactly when that host is not
\* "sentry.io".
C5_ArgsTokenAndHostFlag ==
    ppc = "built"
        => /\ HasOption(params.args, "--access-token",
                        environ.SENTRY_ACCESS_TOKEN)
           /\ HasOption(params.args, "--host", ConfiguredHost)
                 <=> ConfiguredHost # "sentry.io"
           /\ Len(params.args) = IF ConfiguredHost # "sentry.io" THEN 5 ELSE 3

\* parameters were built for a self-hosted Sentry
C5_Witness ==
    /\ ppc = "built"
    /\ environ.SENTRY_HOST = "sentry.example.com"
    /\ HasOption(params.args, "--host", "sentry.example.com")

\* C6: the environment built by _build_server_params always maps
\* SENTRY_HOST to the configured host; it maps OPENAI_API_KEY, to the
\* configured key, exactly when the configuration holds a (non-empty) key,
\* and otherwise has no OPENAI_API_KEY entry at all; with the default host
\* and no key it is the single entry SENTRY_HOST = "sentry.io".
C6_EnvHostAndOptionalKey ==
    ppc = "built"
        => /\ "SENTRY_HOST" \in DOMAIN params.env
           /\ params.env.SENTRY_HOST = ConfiguredHost
           /\ DOMAIN params.env \subseteq {"SENTRY_HOST", "OPENAI_API_KEY"}
           /\ "OPENAI_API_KEY" \in DOMAIN params.env
                 <=> environ.OPENAI_API_KEY \notin {None, ""}
           /\ "OPENAI_API_KEY" \in DOMAIN params.env
                 => /\ params.env.OPENAI_API_KEY = environ.OPENAI_API_KEY
                    /\ params.env.OPENAI_API_KEY \notin {None, ""}
           /\ (ConfiguredHost = "sentry.io" /\ environ.OPENAI_API_KEY = None)
                 => params.env = [SENTRY_HOST |-> "sentry.io"]

\* the end-to-end scenario: token tok123, default host, no key
C6_Witness ==
    /\ ppc = "built"
    /\ environ = [SENTRY_ACCESS_TOKEN |-> "tok123", SENTRY_HOST |-> None,
                  OPENAI_API_KEY |-> None]
    /\ params.args = <<"@sentry/mcp-server@latest", "--access-token", "tok123">>
    /\ params.env = [SENTRY_HOST |-> "sentry.io"]

\* a and b are the same name when hyphen and underscore are one character
SameUpToSeparators(a, b) ==
    /\ Len(a) = Len(b)
    /\ \A i \in 1..Len(a) : a[i] = b[i] \/ {a[i], b[i]} \subseteq {"-", "_"}

ExactMatches == {i \in 1..Len(catalog) : catalog[i] = tool_name}

SeparatorMatches ==
    {i \in 1..Len(catalog) : SameUpToSeparators(catalog[i], tool_name)}

\* C7: get_tool_by_name returns an entry named exactly as requested when
\* the catalog has one, wherever it stands; else an entry whose name is
\* the requested one up to hyphen/underscore when the catalog has one;
\* else no tool.  It never returns an entry whose name differs from the
\* requested one in anything but hyphen/underscore.
C7_ExactThenNormalizedThenNone ==
    cpc = "resolved"
        => /\ ExactMatches # {} => tool \in ExactMatches
           /\ (ExactMatches = {} /\ SeparatorMatches # {})
                 => tool \in SeparatorMatches
           /\ SeparatorMatches = {} => tool = NotFound
           /\ tool # NotFound => tool \in SeparatorMatches

\* resolution returned the exact match although an entry standing earlier
\* in the catalog matches after normalization
C7_Witness ==
    /\ cpc = "resolved"
    /\ tool \in ExactMatches
    /\ \E j \in SeparatorMatches : j < tool /\ j \notin ExactMatches

\* C10: with no exact match and several entries matching after
\* normalization, get_tool_by_name returns the first of them in catalog
\* order; it does not fail.
C10_FirstNormalizedMatch ==
    (cpc = "resolved" /\ ExactMatches = {} /\ Cardinality(SeparatorMatches) >= 2)
        => /\ tool \in SeparatorMatches
           /\ \A j \in SeparatorMatches : tool <= j

\* two different names of the catalog match the requested name after
\* normalization, neither exactly, and the first was returned
C10_Witness ==
    /\ cpc = "resolved"
    /\ ExactMatches = {}
    /\ \E i \in SeparatorMatches : \E j \in SeparatorMatches :
          i < j /\ catalog[i] # catalog[j] /\ tool = i

\* C8: a command whose access token is missing fails in get_settings: it
\* never reaches the spawn, and ends with exit status 1.  Whenever a
\* command has reached list_all_tools, its settings were loaded.
C8_NoSpawnWithoutSettings ==
    cmd \in Commands
        => /\ (pc # "idle" \/ task # "none" \/ spawns > 0 \/ spawnedBy # <<>>)
                 => /\ settings # NoSettings
                    /\ settings.sentry_access_token # None
                    /\ environ.SENTRY_ACCESS_TOKEN # None
           /\ environ.SENTRY_ACCESS_TOKEN = None
                 => /\ pc = "idle" /\ task = "none"
                    /\ spawns = 0 /\ spawnedBy = <<>> /\ proc = {}
                    /\ cpc \in {"get_settings", "exited"}
                    /\ cpc = "exited" => exitCode = "1"

\* a command without an access token has exited
C8_Witness ==
    /\ cmd \in Commands
    /\ environ.SENTRY_ACCESS_TOKEN = None
    /\ cpc = "exited"
    /\ exitCode = "1"
    /\ spawns = 0

====
